---- MODULE Spec2Model ----
(***************************************************************************)
(* Gemini-Novel-Maker: the chapter pipeline of chapter_generator.py, the   *)
(* context aggregator of context_manager.py and their drivers.             *)
(*                                                                         *)
(* A text is a sequence of pieces (atomic fragments of characters); the    *)
(* empty text is <<>>.  A document is a sequence of paragraphs.  The file  *)
(* system is a function from the existing paths to documents.              *)
(***************************************************************************)
EXTENDS Integers, Sequences, FiniteSets, TLC

VARIABLES
    files,        \* the documents on disk: existing path -> document
    dirs,         \* the directories os.makedirs has created
    pc,           \* position inside ChapterGenerator.generate_chapter
    loc,          \* the local variables of the running generate_chapter
    ret,          \* the value the last generate_chapter returned
    events,       \* endpoint calls and file accesses of the current call, in order
    calls,        \* generate_chapter calls started so far
    run,          \* SpecRace: the two concurrent save_response activations
    parse,        \* SpecParse: a checker response and the parsed outcome
    scan,         \* SpecPrev: the loop state of get_existing_chapter_content
    context,      \* SpecCtx: ContextManager.context
    context_str   \* SpecCtx: the value the last get_context() returned

vars == <<files, dirs, pc, loc, ret, events, calls, run, parse, scan,
          context, context_str>>

----------------------------------------------------------------------------
(* Bounds of the model *)

\* generate_chapter calls in one behaviour of Spec
MaxCalls == 3
\* generate_chapter calls in one behaviour of SpecPasses
MaxPassCalls == 1
\* chapter numbers a caller requests: 1..MaxChapter
MaxChapter == 2
\* pieces of a checker response in SpecParse
MaxResponse == 3
\* earlier chapter documents in SpecPrev: output/Chapter 1..MaxPrev.docx
MaxPrev == 3
\* entries a ContextManager holds in SpecCtx
MaxEntries == 3
\* generate_chapter calls in one behaviour of SpecReport
MaxReportCalls == 1

----------------------------------------------------------------------------
(* Texts *)

Digit == <<"0", "1", "2", "3", "4", "5", "6", "7", "8", "9">>

\* str(n) of a non-negative integer, as the text of its decimal digits
RECURSIVE Str(_)
Str(n) == IF n < 10 THEN <<Digit[n + 1]>>
          ELSE Str(n \div 10) \o <<Digit[(n % 10) + 1]>>

\* len() of one piece, in characters
PieceLen(p) ==
    CASE p = "Chapter " -> 8
      [] p = "page" -> 4
      [] p = "book" -> 1048576
      [] p = "tome" -> 2097142
      [] p = "Error generating chapter: " -> 26
      [] OTHER -> 1

RECURSIVE TextLen(_)
TextLen(t) == IF t = <<>> THEN 0 ELSE PieceLen(Head(t)) + TextLen(Tail(t))

RECURSIVE Concat(_)
Concat(ts) == IF ts = <<>> THEN <<>> ELSE Head(ts) \o Concat(Tail(ts))

\* "\n".join(lines)
RECURSIVE JoinLines(_)
JoinLines(lines) ==
    IF lines = <<>> THEN <<>>
    ELSE IF Len(lines) = 1 THEN lines[1]
    ELSE lines[1] \o <<"\n">> \o JoinLines(Tail(lines))

\* Optional[str]: None, or a text
None == [some |-> FALSE, text |-> <<>>]
Some(t) == [some |-> TRUE, text |-> t]
\* Python truthiness of an Optional[str]
Truthy(o) == o.some /\ o.text # <<>>

----------------------------------------------------------------------------
(* Paths and documents *)

OUTPUT == "output"
Dirs == {OUTPUT, "custom"}

\* os.path.join(dir, f'Chapter {n}.docx')
ChapterPath(dir, n) == [dir |-> dir, kind |-> "chapter", n |-> n]
\* f'output/Chapter {n} validity.docx'
ValidityPath(n) == [dir |-> OUTPUT, kind |-> "validity", n |-> n]
NoPath == [dir |-> "", kind |-> "", n |-> 0]

Para(style, text) == [style |-> style, text |-> text]

\* doc.save(path)
WriteFile(fs, path, doc) ==
    [p \in (DOMAIN fs) \cup {path} |-> IF p = path THEN doc ELSE fs[p]]

\* "\n".join([paragraph.text for paragraph in doc.paragraphs])
DocText(doc) == JoinLines([i \in 1..Len(doc) |-> doc[i].text])

ChapterFiles(fs) == {p \in DOMAIN fs : p.kind = "chapter"}
ValidityFiles(fs) == {p \in DOMAIN fs : p.kind = "validity"}

----------------------------------------------------------------------------
(* ChapterGenerator: configuration *)

FLASH == "gemini-1.5-flash-002"
PRO == "gemini-1.5-pro-002"
Models == {FLASH, PRO}

\* self.MAX_INPUT_TOKENS = 2097152 if 'pro' in generation_model else 1048576
MAX_INPUT_TOKENS(generation_model) ==
    IF generation_model = PRO THEN 2097152 ELSE 1048576

\* estimate_token_count: len(text) // 4
estimate_token_count(text) == TextLen(text) \div 4

----------------------------------------------------------------------------
(* ChapterGenerator.get_existing_chapter_content *)

\* the loop state before the first iteration; `included` and `opened` record
\* which chapter numbers were added to existing_content and which documents
\* were opened
PrevStart ==
    [existing_content |-> <<>>, total_tokens |-> 0, stopped |-> FALSE,
     included |-> <<>>, opened |-> <<>>]

\* mutant: the chapter is added before the budget is looked at
prev_iter_adds_first(fs, max_tokens, st, i) ==
    LET previous_chapter_path == ChapterPath(OUTPUT, i) IN
    IF previous_chapter_path \notin DOMAIN fs THEN st
    ELSE
      LET chapter_content == DocText(fs[previous_chapter_path])
          chapter_tokens == estimate_token_count(chapter_content)
      IN [existing_content |-> chapter_content \o <<"\n">> \o st.existing_content,
          total_tokens |-> st.total_tokens + chapter_tokens,
          stopped |-> st.total_tokens + chapter_tokens > max_tokens \div 2,
          included |-> Append(st.included, i),
          opened |-> Append(st.opened, i)]

\* one iteration of `for i in range(1, chapter_number)`
prev_iter(fs, max_tokens, st, i) ==
    LET previous_chapter_path == ChapterPath(OUTPUT, i) IN
    IF previous_chapter_path \notin DOMAIN fs THEN st
    ELSE
      LET chapter_content == DocText(fs[previous_chapter_path])
          chapter_tokens == estimate_token_count(chapter_content)
      IN IF st.total_tokens + chapter_tokens > max_tokens \div 2
         THEN [st EXCEPT !.stopped = TRUE, !.opened = Append(@, i)]
         ELSE [existing_content |-> chapter_content \o <<"\n">> \o st.existing_content,
               total_tokens |-> st.total_tokens + chapter_tokens,
               stopped |-> FALSE,
               included |-> Append(st.included, i),
               opened |-> Append(st.opened, i)]

RECURSIVE prev_loop(_, _, _, _, _)
prev_loop(fs, max_tokens, st, i, chapter_number) ==
    IF i >= chapter_number \/ st.stopped THEN st
    ELSE prev_loop(fs, max_tokens, prev_iter(fs, max_tokens, st, i), i + 1,
                   chapter_number)

\* mutant: the accumulated text is returned even when empty
prev_result_never_none(st) == Some(st.existing_content)

\* return existing_content if existing_content else None
prev_result(st) ==
    IF st.existing_content # <<>> THEN Some(st.existing_content) ELSE None

get_existing_chapter_content(fs, max_tokens, chapter_number) ==
    prev_result(prev_loop(fs, max_tokens, PrevStart, 1, chapter_number))

----------------------------------------------------------------------------
(* ChapterGenerator._construct_prompt: the parts of the prompt that vary *)

NO_PREVIOUS == <<"No previous chapters">>

construct_prompt(previous_chapters, chapter_path) ==
    [previous |-> IF Truthy(previous_chapters) THEN previous_chapters.text
                  ELSE NO_PREVIOUS,
     filename |-> chapter_path]

----------------------------------------------------------------------------
(* ChapterGenerator.save_response *)

\* mutant: no existence probe, the requested path is the target
probe_no_loop(fs, output_path, chapter_number) ==
    [path |-> output_path, number |-> chapter_number]

\* while os.path.exists(output_path): chapter_number += 1; output_path = ...
RECURSIVE probe(_, _, _)
probe(fs, output_path, chapter_number) ==
    IF output_path \in DOMAIN fs
    THEN probe(fs, ChapterPath(OUTPUT, chapter_number + 1), chapter_number + 1)
    ELSE [path |-> output_path, number |-> chapter_number]

\* doc.add_heading(f'Chapter {chapter_number}', level=1); doc.add_paragraph(chapter)
chapter_doc(chapter, chapter_number) ==
    << Para("Heading 1", <<"Chapter ">> \o Str(chapter_number)),
       Para("Normal", chapter) >>

\* mutant: the heading keeps the requested number after renumbering
save_response_stale_heading(fs, chapter, output_path, chapter_number) ==
    WriteFile(fs, probe(fs, output_path, chapter_number).path,
              chapter_doc(chapter, chapter_number))

save_response(fs, chapter, output_path, chapter_number) ==
    LET target == probe(fs, output_path, chapter_number) IN
    WriteFile(fs, target.path, chapter_doc(chapter, target.number))

----------------------------------------------------------------------------
(* The validator passes: check_chapter, review_chapter, enforce_style_guide, *)
(* check_continuity, run_tests.  What the checking endpoint did is           *)
(* [ok |-> FALSE] when generate_content or response.text raised, else the    *)
(* response text.                                                            *)

Raised == [ok |-> FALSE, text |-> <<>>]
Replied(text) == [ok |-> TRUE, text |-> text]

Whitespace == {" ", "\n"}

\* marker in text
Contains(text, marker) == \E i \in 1..Len(text) : text[i] = marker

\* the index of the first occurrence of marker (text contains it)
FirstIndex(text, marker) ==
    CHOOSE i \in 1..Len(text) :
        text[i] = marker /\ \A j \in 1..(i - 1) : text[j] # marker

\* text.split(marker)[1] (text contains marker)
SplitSecond(text, marker) ==
    LET rest == SubSeq(text, FirstIndex(text, marker) + 1, Len(text)) IN
    IF Contains(rest, marker)
    THEN SubSeq(rest, 1, FirstIndex(rest, marker) - 1)
    ELSE rest

\* text.strip()
RECURSIVE Strip(_)
Strip(text) ==
    IF text = <<>> THEN <<>>
    ELSE IF Head(text) \in Whitespace THEN Strip(Tail(text))
    ELSE IF text[Len(text)] \in Whitespace THEN Strip(SubSeq(text, 1, Len(text) - 1))
    ELSE text

\* text.split('\n')
RECURSIVE SplitLines(_)
SplitLines(text) ==
    IF ~Contains(text, "\n") THEN <<text>>
    ELSE LET i == FirstIndex(text, "\n") IN
         <<SubSeq(text, 1, i - 1)>> \o SplitLines(SubSeq(text, i + 1, Len(text)))

\* mutant: the response is stripped also when it lacks the marker
after_marker_always_strips(response_text, marker) ==
    IF Contains(response_text, marker)
    THEN Strip(SplitSecond(response_text, marker))
    ELSE Strip(response_text)

\* response_text.split(marker)[1].strip() if marker in response_text else response_text
after_marker(response_text, marker) ==
    IF Contains(response_text, marker)
    THEN Strip(SplitSecond(response_text, marker))
    ELSE response_text

check_chapter(response) ==
    IF response.ok
    THEN [flag |-> Contains(response.text, "Valid: Yes"),
          feedback |-> after_marker(response.text, "Feedback:")]
    ELSE [flag |-> FALSE,
          feedback |-> <<"An error occurred while checking the chapter.">>]

review_chapter(response) ==
    IF response.ok
    THEN SplitLines(after_marker(response.text, "Review:"))
    ELSE << <<"An error occurred while reviewing the chapter.">> >>

enforce_style_guide(response) ==
    IF response.ok
    THEN [flag |-> Contains(response.text, "Adheres to Style Guide: Yes"),
          feedback |-> after_marker(response.text, "Feedback:")]
    ELSE [flag |-> FALSE,
          feedback |-> <<"An error occurred while enforcing the style guide.">>]

check_continuity(response) ==
    IF response.ok
    THEN [flag |-> Contains(response.text, "Continuity: Yes"),
          feedback |-> after_marker(response.text, "Feedback:")]
    ELSE [flag |-> FALSE,
          feedback |-> <<"An error occurred while checking continuity.">>]

run_tests(response) ==
    IF response.ok
    THEN SplitLines(after_marker(response.text, "Test Results:"))
    ELSE << <<"An error occurred while running tests.">> >>

\* generate_chapter lines 62-63: the continuity outcome when the pass is skipped
NO_CONTINUITY ==
    [flag |-> TRUE,
     feedback |-> <<"No previous chapters available for continuity check.">>]

----------------------------------------------------------------------------
(* ChapterGenerator.save_validity_feedback *)

\* f"{flag}" of a bool
BoolStr(b) == IF b THEN "True" ELSE "False"

Paras(style, texts) == [i \in 1..Len(texts) |-> Para(style, texts[i])]

validity_doc(is_valid, feedback, review_feedback, style_guide_feedback, continuity_feedback, test_results, adheres_to_style_guide, continuity) ==
    << Para("Heading 1", <<"Chapter Validity and Feedback">>),
       Para("Normal", <<"Is Valid: ", BoolStr(is_valid)>>),
       Para("Normal", <<"Feedback: ">> \o feedback) >>
    \o (IF review_feedback # <<>>
        THEN <<Para("Heading 2", <<"Content Review Feedback">>)>>
             \o Paras("Normal", review_feedback)
        ELSE <<>>)
    \o (IF style_guide_feedback # <<>>
        THEN << Para("Heading 2", <<"Style Guide Feedback">>),
                Para("Normal", <<"Adheres to Style Guide: ",
                                 BoolStr(adheres_to_style_guide)>>),
                Para("Normal", <<"Feedback: ">> \o style_guide_feedback) >>
        ELSE <<>>)
    \o (IF continuity_feedback # <<>>
        THEN << Para("Heading 2", <<"Continuity Feedback">>),
                Para("Normal", <<"Continuity: ", BoolStr(continuity)>>),
                Para("Normal", <<"Feedback: ">> \o continuity_feedback) >>
        ELSE <<>>)
    \o (IF test_results # <<>>
        THEN <<Para("Heading 2", <<"Automated Test Results">>)>>
             \o Paras("Normal", test_results)
        ELSE <<>>)

----------------------------------------------------------------------------
(* ChapterGenerator.generate_chapter, one action per step of its body.     *)
(* The caller is ChapterGeneratorLoop.generate_chapter, which builds       *)
(* chapter_path from the destination directory and the chapter number.     *)

NoFiles == [p \in {} |-> <<>>]

\* err is "" when the step succeeded, else what it raised
Event(op, path, err) == [op |-> op, path |-> path, err |-> err]

\* f"Error generating chapter: {str(e)}"
ErrorText(reason) == <<"Error generating chapter: ", reason>>

\* what the generation endpoint can do on the k-th call: generate_content
\* raises, the stream raises after some chunks, or the stream ends
GenOutcomes(k) ==
    { [fail |-> "call", chunks |-> <<>>],
      [fail |-> "stream", chunks |-> << <<"Once">> >>],
      [fail |-> "none", chunks |-> << <<"Once", " ">>, <<>>, <<"draft">> \o Str(k) >>] }

\* what the checking endpoint can do for one pass
Reply(pass) ==
    CASE pass = "check_chapter" ->
           <<"Valid: Yes", "\n", "Feedback:", " ", "good">>
      [] pass = "review_chapter" ->
           <<"Review:", " ", "solid", "\n", "pacing">>
      [] pass = "enforce_style_guide" ->
           <<"Adheres to Style Guide: Yes", "\n", "Feedback:", " ", "good">>
      [] pass = "check_continuity" ->
           <<"Continuity: Yes", "\n", "Feedback:", " ", "good">>
      [] pass = "run_tests" ->
           <<"Test Results:", " ", "passed">>

LocInit ==
    [chapter_number |-> 0, chapter_path |-> NoPath, files0 |-> NoFiles,
     previous_chapters |-> None, prompt |-> construct_prompt(None, NoPath),
     stream |-> <<>>, chapter |-> <<>>,
     validity |-> [flag |-> FALSE, feedback |-> <<>>],
     review_feedback |-> <<>>,
     style |-> [flag |-> FALSE, feedback |-> <<>>],
     continuity |-> [flag |-> FALSE, feedback |-> <<>>],
     test_results |-> <<>>]

RunIdle == [p \in {} |-> 0]
ParseIdle == [response |-> <<>>, pass |-> "", flag |-> FALSE, feedback |-> <<>>,
              lines |-> <<>>]
ScanIdle == [chapter_number |-> 0, model |-> FLASH, i |-> 0, st |-> PrevStart,
             result |-> None, done |-> FALSE]
ContextInit == [characters |-> <<>>, plot |-> <<>>, settings |-> <<>>,
                other_elements |-> <<>>]

OtherIdle ==
    /\ run = RunIdle /\ parse = ParseIdle /\ scan = ScanIdle
    /\ context = ContextInit /\ context_str = <<>>

Init ==
    /\ files = NoFiles /\ dirs = {}
    /\ pc = "idle" /\ loc = LocInit /\ ret = <<>> /\ events = <<>> /\ calls = 0
    /\ OtherIdle

others == <<run, parse, scan, context, context_str>>

\* mutant: the exception leaves generate_chapter
Reraise(reason) ==
    /\ pc' = "raised"
    /\ ret' = ret

\* the except branch: return f"Error generating chapter: {str(e)}"
ReturnError(reason) ==
    /\ pc' = "idle"
    /\ ret' = ErrorText(reason)

\* a caller starts generate_chapter(instructions, context, chapter_path, chapter_number)
Call(chapter_number, output_path, limit) ==
    /\ pc = "idle" /\ calls < limit
    /\ calls' = calls + 1
    /\ loc' = [LocInit EXCEPT !.chapter_number = chapter_number,
                              !.chapter_path = ChapterPath(output_path, chapter_number),
                              !.files0 = files]
    /\ events' = <<>>
    /\ pc' = "previous"
    /\ UNCHANGED <<files, dirs, ret, others>>

\* the documents get_existing_chapter_content opens, as events
ReadEvents(opened) ==
    [k \in 1..Len(opened) |-> Event("read", ChapterPath(OUTPUT, opened[k]), "")]

\* lines 27-29: previous_chapters and the prompt; Document(path) may raise
GetPrevious ==
    /\ pc = "previous"
    /\ LET st == prev_loop(files, MAX_INPUT_TOKENS(FLASH), PrevStart, 1,
                           loc.chapter_number)
       IN \/ /\ loc' = [loc EXCEPT !.previous_chapters = prev_result(st),
                                   !.prompt = construct_prompt(prev_result(st),
                                                               loc.chapter_path)]
             /\ events' = events \o ReadEvents(st.opened)
             /\ pc' = "generate"
             /\ UNCHANGED ret
          \/ /\ st.opened # <<>>
             /\ events' = Append(events, Event("read", ChapterPath(OUTPUT, st.opened[1]),
                                                "cannot open document"))
             /\ ReturnError("cannot open document")
             /\ UNCHANGED loc
    /\ UNCHANGED <<files, dirs, calls, others>>

\* mutant: a failed generation call yields the error message as the chapter,
\* which is then validated and saved
Generate_saves_error(outcome) ==
    /\ pc = "generate"
    /\ events' = Append(events, Event("generate_content", NoPath,
                                      IF outcome.fail = "none" THEN ""
                                      ELSE "generation endpoint failed"))
    /\ loc' = [loc EXCEPT !.stream = outcome.chunks,
                          !.chapter = IF outcome.fail = "none"
                                      THEN Concat(outcome.chunks)
                                      ELSE ErrorText("generation endpoint failed")]
    /\ pc' = "validate"
    /\ UNCHANGED <<files, dirs, ret, calls, others>>

\* lines 38-46: the generation call and the consumption of its stream
Generate(outcome) ==
    /\ pc = "generate"
    /\ \/ /\ outcome.fail = "none"
          /\ events' = Append(events, Event("generate_content", NoPath, ""))
          /\ loc' = [loc EXCEPT !.stream = outcome.chunks,
                                !.chapter = Concat(outcome.chunks)]
          /\ pc' = "validate"
          /\ UNCHANGED ret
       \/ /\ outcome.fail = "call"
          /\ events' = Append(events, Event("generate_content", NoPath,
                                            "generation endpoint failed"))
          /\ ReturnError("generation endpoint failed")
          /\ UNCHANGED loc
       \/ /\ outcome.fail = "stream"
          /\ events' = Append(events, Event("generate_content", NoPath,
                                            "stream interrupted"))
          /\ ReturnError("stream interrupted")
          /\ loc' = [loc EXCEPT !.stream = outcome.chunks,
                                !.chapter = Concat(outcome.chunks)]
    /\ UNCHANGED <<files, dirs, calls, others>>

\* mutant: the tests are run first
PassOrder_tests_first == <<"run_tests", "check_chapter", "review_chapter",
                           "enforce_style_guide", "check_continuity">>

\* the passes in the order generate_chapter calls them
PassOrder == <<"check_chapter", "review_chapter", "enforce_style_guide",
               "check_continuity", "run_tests">>

IsNotContinuity(pass) == pass # "check_continuity"

\* lines 64-65: check_continuity is called only if previous_chapters is truthy
PassesCalled(previous_chapters) ==
    IF Truthy(previous_chapters) THEN PassOrder
    ELSE SelectSeq(PassOrder, IsNotContinuity)

Range(seq) == {seq[i] : i \in 1..Len(seq)}

\* the checking endpoint's outcome for a pass, given the passes whose call fails
Response(pass, failing) ==
    IF pass \in failing THEN Raised ELSE Replied(Reply(pass))

\* the calls of the checking endpoint, as events
PassEvents(previous_chapters, failing) ==
    LET order == PassesCalled(previous_chapters) IN
    [k \in 1..Len(order) |->
        Event(order[k], NoPath, IF order[k] \in failing THEN "absorbed" ELSE "")]

\* the passes that are called and whose call fails
Failing(down) == down \cap Range(PassesCalled(loc.previous_chapters))

\* mutant: the first failure of a validator call aborts generate_chapter
Validate_aborts(down) ==
    /\ pc = "validate"
    /\ events' = events \o PassEvents(loc.previous_chapters, Failing(down))
    /\ IF Failing(down) = {}
       THEN /\ loc' = [loc EXCEPT
                  !.validity = check_chapter(Response("check_chapter", Failing(down))),
                  !.review_feedback = review_chapter(Response("review_chapter", Failing(down))),
                  !.style = enforce_style_guide(Response("enforce_style_guide", Failing(down))),
                  !.continuity =
                      IF Truthy(loc.previous_chapters)
                      THEN check_continuity(Response("check_continuity", Failing(down)))
                      ELSE NO_CONTINUITY,
                  !.test_results = run_tests(Response("run_tests", Failing(down)))]
            /\ pc' = "save"
            /\ UNCHANGED ret
       ELSE /\ ReturnError("validator failed")
            /\ UNCHANGED loc
    /\ UNCHANGED <<files, dirs, calls, others>>

\* lines 50-68: the validator passes, one after the other; the checking
\* endpoint fails on the passes in `down`
Validate(down) ==
    /\ pc = "validate"
    /\ events' = events \o PassEvents(loc.previous_chapters, Failing(down))
    /\ loc' = [loc EXCEPT
          !.validity = check_chapter(Response("check_chapter", Failing(down))),
          !.review_feedback = review_chapter(Response("review_chapter", Failing(down))),
          !.style = enforce_style_guide(Response("enforce_style_guide", Failing(down))),
          !.continuity =
              IF Truthy(loc.previous_chapters)
              THEN check_continuity(Response("check_continuity", Failing(down)))
              ELSE NO_CONTINUITY,
          !.test_results = run_tests(Response("run_tests", Failing(down)))]
    /\ pc' = "save"
    /\ UNCHANGED <<files, dirs, ret, calls, others>>

\* lines 70-74: save_response, save_validity_feedback, return chapter;
\* makedirs or doc.save of either document may raise
Persist ==
    /\ pc = "save"
    /\ LET target == probe(files, loc.chapter_path, loc.chapter_number)
           saved == save_response(files, loc.chapter, loc.chapter_path,
                                  loc.chapter_number)
           validity_path == ValidityPath(loc.chapter_number)
           report == validity_doc(loc.validity.flag, loc.validity.feedback,
                                  loc.review_feedback, loc.style.feedback,
                                  loc.continuity.feedback, loc.test_results,
                                  loc.style.flag, loc.continuity.flag)
       IN
       \/ /\ files' = WriteFile(saved, validity_path, report)
          /\ dirs' = dirs \cup {target.path.dir, validity_path.dir}
          /\ events' = events \o <<Event("write", target.path, ""),
                                   Event("write", validity_path, "")>>
          /\ pc' = "idle"
          /\ ret' = loc.chapter
       \/ /\ events' = Append(events, Event("write", target.path,
                                            "cannot write document"))
          /\ ReturnError("cannot write document")
          /\ UNCHANGED <<files, dirs>>
       \/ /\ files' = saved
          /\ dirs' = dirs \cup {target.path.dir}
          /\ events' = events \o <<Event("write", target.path, ""),
                                   Event("write", validity_path,
                                         "cannot write document")>>
          /\ ReturnError("cannot write document")
    /\ UNCHANGED <<loc, calls, others>>

\* the steps of a call that has begun
Steps(downs) ==
    \/ GetPrevious
    \/ \E o \in GenOutcomes(calls) : Generate(o)
    \/ \E down \in downs : Validate(down)
    \/ Persist

\* Spec: sequences of calls; during one call the checking endpoint either
\* answers every pass or fails every pass
Outages == {{}, Range(PassOrder)}

Next ==
    \/ \E n \in 1..MaxChapter, d \in Dirs : Call(n, d, MaxCalls)
    \/ Steps(Outages)

Spec == Init /\ [][Next]_vars

\* SpecPasses: calls on an output directory that may hold a first chapter;
\* the checking endpoint fails on any subset of the passes
Shelves ==
    { NoFiles,
      save_response(NoFiles, <<"page">>, ChapterPath(OUTPUT, 1), 1) }

InitPasses ==
    /\ files \in Shelves /\ dirs = {}
    /\ pc = "idle" /\ loc = LocInit /\ ret = <<>> /\ events = <<>> /\ calls = 0
    /\ OtherIdle

NextPasses ==
    \/ \E n \in 1..MaxChapter, d \in Dirs : Call(n, d, MaxPassCalls)
    \/ Steps(SUBSET Range(PassOrder))

SpecPasses == InitPasses /\ [][NextPasses]_vars

\* SpecReport: calls in which the checking endpoint answers every pass, each
\* answer either in the full format or with nothing after its marker
Blank(pass) ==
    CASE pass = "check_chapter" -> <<"Valid: Yes", "\n", "Feedback:", " ">>
      [] pass = "review_chapter" -> <<"Review:", " ">>
      [] pass = "enforce_style_guide" ->
           <<"Adheres to Style Guide: Yes", "\n", "Feedback:", " ">>
      [] pass = "check_continuity" -> <<"Continuity: Yes", "\n", "Feedback:">>
      [] pass = "run_tests" -> <<"Test Results:", "\n">>

Answers == {[pass \in Range(PassOrder) |-> IF pass \in blank THEN Blank(pass)
                                            ELSE Reply(pass)] :
               blank \in SUBSET Range(PassOrder)}

\* lines 50-68 when every pass gets a response: answer[pass] is its text
ValidateAnswers(answer) ==
    /\ pc = "validate"
    /\ events' = events \o PassEvents(loc.previous_chapters, {})
    /\ loc' = [loc EXCEPT
          !.validity = check_chapter(Replied(answer["check_chapter"])),
          !.review_feedback = review_chapter(Replied(answer["review_chapter"])),
          !.style = enforce_style_guide(Replied(answer["enforce_style_guide"])),
          !.continuity =
              IF Truthy(loc.previous_chapters)
              THEN check_continuity(Replied(answer["check_continuity"]))
              ELSE NO_CONTINUITY,
          !.test_results = run_tests(Replied(answer["run_tests"]))]
    /\ pc' = "save"
    /\ UNCHANGED <<files, dirs, ret, calls, others>>

NextReport ==
    \/ \E n \in 1..MaxChapter, d \in Dirs : Call(n, d, MaxReportCalls)
    \/ GetPrevious
    \/ \E o \in GenOutcomes(calls) : Generate(o)
    \/ \E answer \in Answers : ValidateAnswers(answer)
    \/ Persist

SpecReport == InitPasses /\ [][NextReport]_vars

----------------------------------------------------------------------------
(* SpecRace: two runs inside save_response at the same time, for the same  *)
(* requested chapter.  Each evaluation of os.path.exists and the write of  *)
(* the document are separate steps of a run.                               *)

Runs == {1, 2}

PipelineIdle ==
    /\ dirs = {} /\ pc = "idle" /\ loc = LocInit /\ ret = <<>>
    /\ events = <<>> /\ calls = 0

pipeline == <<dirs, pc, loc, ret, events, calls>>

\* the chapter documents output/Chapter i.docx an earlier run may have left
Libraries(numbers, bodies) ==
    UNION { { [p \in {ChapterPath(OUTPUT, i) : i \in S} |-> chapter_doc(b[p.n], p.n)] :
                b \in [S -> bodies] } : S \in SUBSET numbers }

\* save_response(chapter, output_path, chapter_number) has been entered
RunStart(r, output_path, chapter_number) ==
    [pc |-> "probe", chapter |-> <<"draft">> \o Str(r),
     requested |-> chapter_number,
     output_path |-> ChapterPath(output_path, chapter_number),
     chapter_number |-> chapter_number]

InitRace ==
    /\ files \in Libraries(1..MaxChapter, {<<"page">>})
    /\ \E n \in 1..MaxChapter, d \in Dirs :
          run = [r \in Runs |-> RunStart(r, d, n)]
    /\ PipelineIdle
    /\ parse = ParseIdle /\ scan = ScanIdle
    /\ context = ContextInit /\ context_str = <<>>

\* lines 224-226: one evaluation of the while condition, and the loop body
RaceProbe(r) ==
    /\ run[r].pc = "probe"
    /\ IF run[r].output_path \in DOMAIN files
       THEN run' = [run EXCEPT
                ![r].chapter_number = @ + 1,
                ![r].output_path = ChapterPath(OUTPUT, run[r].chapter_number + 1)]
       ELSE run' = [run EXCEPT ![r].pc = "write"]
    /\ UNCHANGED <<files, pipeline, parse, scan, context, context_str>>

\* lines 228-232: makedirs, the document, doc.save
RaceWrite(r) ==
    /\ run[r].pc = "write"
    /\ files' = WriteFile(files, run[r].output_path,
                          chapter_doc(run[r].chapter, run[r].chapter_number))
    /\ run' = [run EXCEPT ![r].pc = "done"]
    /\ UNCHANGED <<pipeline, parse, scan, context, context_str>>

NextRace == \E r \in Runs : RaceProbe(r) \/ RaceWrite(r)

SpecRace == InitRace /\ [][NextRace]_vars

----------------------------------------------------------------------------
(* SpecParse: the parse of a checker response by each validator pass.      *)
(* A response is any text of at most MaxResponse pieces over the labels    *)
(* the prompts ask for, plain text and whitespace.                         *)

ResponsePieces ==
    {"Valid: Yes", "Adheres to Style Guide: Yes", "Continuity: Yes",
     "Feedback:", "Review:", "Test Results:", "prose", " ", "\n"}

Responses == UNION {[1..n -> ResponsePieces] : n \in 0..MaxResponse}

InitParse ==
    /\ parse \in {[ParseIdle EXCEPT !.response = r] : r \in Responses}
    /\ files = NoFiles /\ PipelineIdle
    /\ run = RunIdle /\ scan = ScanIdle
    /\ context = ContextInit /\ context_str = <<>>

\* a pass with a boolean outcome and a feedback text
ParseVerdict(pass, outcome) ==
    /\ parse.pass = ""
    /\ parse' = [parse EXCEPT !.pass = pass, !.flag = outcome.flag,
                              !.feedback = outcome.feedback]
    /\ UNCHANGED <<files, pipeline, run, scan, context, context_str>>

\* a pass that returns feedback lines
ParseLines(pass, lines) ==
    /\ parse.pass = ""
    /\ parse' = [parse EXCEPT !.pass = pass, !.lines = lines]
    /\ UNCHANGED <<files, pipeline, run, scan, context, context_str>>

ParseCheck == ParseVerdict("check_chapter", check_chapter(Replied(parse.response)))
ParseReview == ParseLines("review_chapter", review_chapter(Replied(parse.response)))
ParseStyle ==
    ParseVerdict("enforce_style_guide", enforce_style_guide(Replied(parse.response)))
ParseContinuity ==
    ParseVerdict("check_continuity", check_continuity(Replied(parse.response)))
ParseTests == ParseLines("run_tests", run_tests(Replied(parse.response)))

NextParse ==
    \/ ParseCheck
    \/ ParseReview
    \/ ParseStyle
    \/ ParseContinuity
    \/ ParseTests

SpecParse == InitParse /\ [][NextParse]_vars

----------------------------------------------------------------------------
(* SpecPrev: get_existing_chapter_content, one loop iteration per step,    *)
(* over the chapter documents earlier runs may have left in output/.       *)

\* chapter bodies: 4 characters, 1048576 characters, 2097142 characters
Bodies == {<<"page">>, <<"book">>, <<"tome">>}

InitPrev ==
    /\ files \in Libraries(1..MaxPrev, Bodies)
    /\ scan \in {[ScanIdle EXCEPT !.chapter_number = n, !.model = m, !.i = 1] :
                    n \in 1..(MaxPrev + 1), m \in Models}
    /\ PipelineIdle
    /\ run = RunIdle /\ parse = ParseIdle
    /\ context = ContextInit /\ context_str = <<>>

\* the body of `for i in range(1, chapter_number)`, once
ScanStep ==
    /\ ~scan.done /\ scan.i >= 1
    /\ scan.i < scan.chapter_number /\ ~scan.st.stopped
    /\ scan' = [scan EXCEPT
                  !.st = prev_iter(files, MAX_INPUT_TOKENS(scan.model), scan.st, scan.i),
                  !.i = scan.i + 1]
    /\ UNCHANGED <<files, pipeline, run, parse, context, context_str>>

\* the loop is over (range exhausted, or break): the return statement
ScanReturn ==
    /\ ~scan.done /\ scan.i >= 1
    /\ scan.i >= scan.chapter_number \/ scan.st.stopped
    /\ scan' = [scan EXCEPT !.result = prev_result(scan.st), !.done = TRUE]
    /\ UNCHANGED <<files, pipeline, run, parse, context, context_str>>

NextPrev ==
    \/ ScanStep
    \/ ScanReturn

SpecPrev == InitPrev /\ [][NextPrev]_vars

----------------------------------------------------------------------------
(* ContextManager.  context['characters'] is a dict: its items in          *)
(* insertion order, as [name, description] records; the other three fields *)
(* are lists of texts.                                                     *)

HasName(characters, name) == \E k \in 1..Len(characters) : characters[k].name = name

\* self.context['characters'][name] = description
add_character(ctx, name, description) ==
    IF HasName(ctx.characters, name)
    THEN [ctx EXCEPT !.characters =
            [k \in 1..Len(@) |->
                IF @[k].name = name
                THEN [name |-> name, description |-> description] ELSE @[k]]]
    ELSE [ctx EXCEPT !.characters =
            Append(@, [name |-> name, description |-> description])]

\* mutant: the plot list is replaced by the new plot point
add_plot_point_assigns(ctx, plot_point) == [ctx EXCEPT !.plot = <<plot_point>>]

\* self.context['plot'].append(plot_point)
add_plot_point(ctx, plot_point) == [ctx EXCEPT !.plot = Append(@, plot_point)]

\* self.context['settings'].append(setting)
add_setting(ctx, setting) == [ctx EXCEPT !.settings = Append(@, setting)]

\* self.context['other_elements'].append(element)
add_other_element(ctx, element) == [ctx EXCEPT !.other_elements = Append(@, element)]

\* f"{key}: {sub_key}: {sub_value}\n"
CharacterLine(key, c) == <<key, ": ">> \o c.name \o <<": ">> \o c.description \o <<"\n">>

\* f"{key}: {item}\n"
ItemLine(key, item) == <<key, ": ">> \o item \o <<"\n">>

\* mutant: the list fields are rendered before the characters
get_context_lists_first(ctx) ==
    Concat([k \in 1..Len(ctx.plot) |-> ItemLine("plot", ctx.plot[k])])
    \o Concat([k \in 1..Len(ctx.settings) |-> ItemLine("settings", ctx.settings[k])])
    \o Concat([k \in 1..Len(ctx.other_elements) |->
                  ItemLine("other_elements", ctx.other_elements[k])])
    \o Concat([k \in 1..Len(ctx.characters) |-> CharacterLine("characters", ctx.characters[k])])

\* get_context: the fields in the order of the dict literal of __init__
get_context(ctx) ==
    Concat([k \in 1..Len(ctx.characters) |-> CharacterLine("characters", ctx.characters[k])])
    \o Concat([k \in 1..Len(ctx.plot) |-> ItemLine("plot", ctx.plot[k])])
    \o Concat([k \in 1..Len(ctx.settings) |-> ItemLine("settings", ctx.settings[k])])
    \o Concat([k \in 1..Len(ctx.other_elements) |->
                  ItemLine("other_elements", ctx.other_elements[k])])

\* entries held: len of the dict and of the three lists
Stored(ctx) ==
    Len(ctx.characters) + Len(ctx.plot) + Len(ctx.settings) + Len(ctx.other_elements)

(* SpecCtx: the calls a caller makes on one ContextManager.  Texts are     *)
(* arbitrary: a plot outline may run over several lines.                   *)

Names == {<<"Ann">>, <<"Bob">>}
Descriptions == {<<"tall">>, <<"shy">>}
Items == {<<"dawn">>, <<"dusk", "\n", "rain">>}

InitCtx ==
    /\ context = ContextInit /\ context_str = <<>>
    /\ files = NoFiles /\ PipelineIdle
    /\ run = RunIdle /\ parse = ParseIdle /\ scan = ScanIdle

\* one call add_character(name, description)
AddCharacterCall(name, description) ==
    /\ HasName(context.characters, name) \/ Stored(context) < MaxEntries
    /\ context' = add_character(context, name, description)
    /\ UNCHANGED <<context_str, files, pipeline, run, parse, scan>>

AddCharacter ==
    \E name \in Names, description \in Descriptions :
        AddCharacterCall(name, description)

AddPlotPoint ==
    \E plot_point \in Items :
        /\ Stored(context) < MaxEntries
        /\ context' = add_plot_point(context, plot_point)
        /\ UNCHANGED <<context_str, files, pipeline, run, parse, scan>>

AddSetting ==
    \E setting \in Items :
        /\ Stored(context) < MaxEntries
        /\ context' = add_setting(context, setting)
        /\ UNCHANGED <<context_str, files, pipeline, run, parse, scan>>

AddOtherElement ==
    \E element \in Items :
        /\ Stored(context) < MaxEntries
        /\ context' = add_other_element(context, element)
        /\ UNCHANGED <<context_str, files, pipeline, run, parse, scan>>

\* context_str keeps what the latest get_context() call returned
GetContext ==
    /\ context_str' = get_context(context)
    /\ UNCHANGED <<context, files, pipeline, run, parse, scan>>

NextCtx ==
    \/ AddCharacter
    \/ AddPlotPoint
    \/ AddSetting
    \/ AddOtherElement
    \/ GetContext

SpecCtx == InitCtx /\ [][NextCtx]_vars

----------------------------------------------------------------------------
(* SpecMain: main(chapter_number, plot, writing_style, instructions,       *)
(* api_key, model) of main.py, one action per statement of its try block.  *)
(* pc is the position in main; the request is kept in loc, the             *)
(* ContextManager in context and the context string in context_str.        *)

\* def generate_chapter(self, instructions, context, chapter_path, chapter_number):
\* the parameters after self; none has a default
Signature == <<"instructions", "context", "chapter_path", "chapter_number">>

\* the keyword arguments of the call in main (and in app.generate_chapter)
MainKeywords == {"instructions", "context", "chapter_path"}

\* Python binds a call when every parameter without a default gets an
\* argument and every keyword names a parameter; else it raises TypeError
Binds(parameters, keywords) ==
    /\ Range(parameters) \subseteq keywords
    /\ keywords \subseteq Range(parameters)

WritingStyles == {<<"Epic">>, <<"Terse">>}

InitMain ==
    /\ files \in Libraries(1..MaxChapter, {<<"page">>})
    /\ PipelineIdle
    /\ OtherIdle

mainframe == <<files, dirs, run, parse, scan>>

\* main is called; lines 20-22: the ContextManager and the ChapterGenerator
MainStart(chapter_number) ==
    /\ pc = "idle" /\ calls = 0 /\ loc = LocInit
    /\ loc' = [LocInit EXCEPT !.chapter_number = chapter_number]
    /\ context' = ContextInit
    /\ pc' = "main:plot"
    /\ UNCHANGED <<context_str, ret, events, calls, mainframe>>

\* line 26: context_manager.add_plot_point(plot)
MainAddPlot(plot) ==
    /\ pc = "main:plot"
    /\ context' = add_plot_point(context, plot)
    /\ pc' = "main:style"
    /\ UNCHANGED <<context_str, loc, ret, events, calls, mainframe>>

\* line 27: context_manager.add_other_element(f"Writing style: {writing_style}")
MainAddStyle(writing_style) ==
    /\ pc = "main:style"
    /\ context' = add_other_element(context, <<"Writing style: ">> \o writing_style)
    /\ pc' = "main:instructions"
    /\ UNCHANGED <<context_str, loc, ret, events, calls, mainframe>>

\* line 28: context_manager.add_other_element(f"Additional instructions: {instructions}")
MainAddInstructions ==
    /\ pc = "main:instructions"
    /\ context' = add_other_element(context,
                      <<"Additional instructions: ", "{'general': 'engaging'}">>)
    /\ pc' = "main:context"
    /\ UNCHANGED <<context_str, loc, ret, events, calls, mainframe>>

\* lines 32-36: context = context_manager.get_context(); chapter_path
MainGetContext ==
    /\ pc = "main:context"
    /\ context_str' = get_context(context)
    /\ loc' = [loc EXCEPT !.chapter_path = ChapterPath(OUTPUT, loc.chapter_number)]
    /\ pc' = "main:call"
    /\ UNCHANGED <<context, ret, events, calls, mainframe>>

\* lines 37-47: chapter_generator.generate_chapter(instructions=..., context=...,
\* chapter_path=...); the body of generate_chapter is entered only if the
\* arguments bind, else TypeError is raised into the except clause of main
MainCall ==
    /\ pc = "main:call"
    /\ IF Binds(Signature, MainKeywords)
       THEN /\ pc' = "previous"
            /\ calls' = calls + 1
            /\ loc' = [loc EXCEPT !.files0 = files]
            /\ UNCHANGED events
       ELSE /\ pc' = "main:except"
            /\ events' = Append(events, Event("generate_chapter", NoPath, "TypeError"))
            /\ UNCHANGED <<loc, calls>>
    /\ UNCHANGED <<context, context_str, ret, mainframe>>

\* lines 51-54: the error is logged and printed, then `raise`
MainExcept ==
    /\ pc = "main:except"
    /\ pc' = "raised"
    /\ UNCHANGED <<context, context_str, loc, ret, events, calls, mainframe>>

NextMain ==
    \/ \E n \in 1..MaxChapter : MainStart(n)
    \/ \E plot \in Items : MainAddPlot(plot)
    \/ \E writing_style \in WritingStyles : MainAddStyle(writing_style)
    \/ MainAddInstructions
    \/ MainGetContext
    \/ MainCall
    \/ MainExcept

SpecMain == InitMain /\ [][NextMain]_vars

----------------------------------------------------------------------------
(* Properties of generate_chapter (Spec) *)

\* generate_chapter has returned
Returned == pc = "idle" /\ calls > 0

\* the steps of the current call that raised into the except branch
Failures ==
    {i \in 1..Len(events) :
        events[i].op \in {"read", "generate_content", "write"} /\ events[i].err # ""}

Wrote(kind) ==
    \E i \in 1..Len(events) :
        events[i].op = "write" /\ events[i].err = "" /\ events[i].path.kind = kind

PassOps == Range(PassOrder)

\* the passes whose checking-endpoint call was made, and those whose call failed
RanPasses == {events[i].op : i \in {j \in 1..Len(events) : events[j].op \in PassOps}}
FailedPasses ==
    {events[i].op : i \in {j \in 1..Len(events) :
                              events[j].op \in PassOps /\ events[j].err # ""}}

LastEvent == events[Len(events)]

SavedChapter(evs) ==
    \E i \in 1..Len(evs) :
        evs[i].op = "write" /\ evs[i].err = "" /\ evs[i].path.kind = "chapter"

\* C1: over any sequence of generate_chapter calls, a step never removes or
\* changes a chapter document that exists, and a successful save_response
\* creates exactly one chapter document, at a path that did not exist, holding
\* the chapter.
C1_NoOverwrite ==
    [][ /\ \A p \in ChapterFiles(files) :
              p \in DOMAIN files' /\ files'[p] = files[p]
        /\ (pc = "save" /\ SavedChapter(events')) =>
              \E p \in ChapterFiles(files') :
                  /\ p \notin DOMAIN files
                  /\ ChapterFiles(files') = ChapterFiles(files) \cup {p}
                  /\ files'[p][2].text = loc.chapter ]_vars

\* a save has just been made while the requested path was already taken
C1_Witness ==
    /\ Returned /\ Wrote("chapter")
    /\ loc.chapter_path \in DOMAIN loc.files0

\* the first number above n whose output/Chapter k.docx does not exist in fs
NextFree(fs, n) ==
    CHOOSE k \in (n + 1)..(n + 1 + Cardinality(DOMAIN fs)) :
        /\ ChapterPath(OUTPUT, k) \notin DOMAIN fs
        /\ \A j \in (n + 1)..(k - 1) : ChapterPath(OUTPUT, j) \in DOMAIN fs

\* C3: when the requested path already holds a document, save_response writes
\* output/Chapter K.docx for the first K above the requested number that is
\* free, and the heading of the written document is 'Chapter K'.
C3_Renumbered ==
    (Wrote("chapter") /\ loc.chapter_path \in DOMAIN loc.files0) =>
        LET K == NextFree(loc.files0, loc.chapter_number)
            w == ChapterPath(OUTPUT, K)
        IN /\ \E i \in 1..Len(events) : events[i] = Event("write", w, "")
           /\ w \notin DOMAIN loc.files0
           /\ w \in DOMAIN files
           /\ files[w][1] = Para("Heading 1", <<"Chapter ">> \o Str(w.n))
           /\ files[w][2] = Para("Normal", loc.chapter)
           /\ \A p \in ChapterFiles(files) : p # w => p \in DOMAIN loc.files0

C3_Witness ==
    /\ Wrote("chapter")
    /\ loc.chapter_path \in DOMAIN loc.files0
    /\ ChapterPath(OUTPUT, loc.chapter_number + 1) \in DOMAIN files
    /\ ChapterPath(OUTPUT, loc.chapter_number + 1) \notin DOMAIN loc.files0

\* the generation endpoint call, or its stream, failed in the call that returned
GenerationFailed ==
    /\ Returned
    /\ \E i \in 1..Len(events) :
          events[i].op = "generate_content" /\ events[i].err # ""

IsErrorText(t) == Len(t) = 2 /\ t[1] = "Error generating chapter: "

\* C4 as stated: after a failed generation call a chapter document whose body
\* is the error message and a validity document have been written.
C4_Original ==
    GenerationFailed =>
        /\ Wrote("chapter") /\ Wrote("validity")
        /\ \E p \in ChapterFiles(files) : files[p][2].text = ret

\* C4, amended: after a failed generation call generate_chapter returns the
\* error message without raising, and has written no document at all.
C4_NothingWritten ==
    GenerationFailed =>
        /\ IsErrorText(ret)
        /\ files = loc.files0
        /\ ~Wrote("chapter") /\ ~Wrote("validity")

C4_Witness == GenerationFailed /\ calls = 2 /\ ChapterFiles(files) # {}

\* the chunks of a stream, joined from the last one backwards
RECURSIVE InOrder(_)
InOrder(chunks) ==
    IF chunks = <<>> THEN <<>>
    ELSE InOrder(SubSeq(chunks, 1, Len(chunks) - 1)) \o chunks[Len(chunks)]

\* C5: generate_chapter never raises; when a read of a prior document, the
\* generation call, the stream or a document write failed it returns
\* 'Error generating chapter: <reason>', else the chunks joined in order.
C5_NeverRaises ==
    /\ pc # "raised"
    /\ Returned =>
          IF Failures # {}
          THEN \A i \in Failures : ret = ErrorText(events[i].err)
          ELSE ret = InOrder(loc.stream)

\* the validity document could not be written after the chapter was saved
C5_Witness ==
    /\ Returned /\ Wrote("chapter")
    /\ LastEvent.op = "write" /\ LastEvent.err # ""

ErrorOutcome(pass) ==
    CASE pass = "check_chapter" ->
           [flag |-> FALSE,
            feedback |-> <<"An error occurred while checking the chapter.">>]
      [] pass = "enforce_style_guide" ->
           [flag |-> FALSE,
            feedback |-> <<"An error occurred while enforcing the style guide.">>]
      [] pass = "check_continuity" ->
           [flag |-> FALSE,
            feedback |-> <<"An error occurred while checking continuity.">>]

\* C6: whatever subset of the validator calls fails, each failed pass ends
\* with a false outcome and its fixed message, the passes after it are still
\* called (continuity only when there is prior text), and unless a document
\* write itself fails both documents are written, the validity document
\* carrying the outcomes.
C6_PassFailuresAbsorbed ==
    /\ pc # "raised"
    /\ "check_chapter" \in FailedPasses =>
          loc.validity = ErrorOutcome("check_chapter")
    /\ "review_chapter" \in FailedPasses =>
          loc.review_feedback = << <<"An error occurred while reviewing the chapter.">> >>
    /\ "enforce_style_guide" \in FailedPasses =>
          loc.style = ErrorOutcome("enforce_style_guide")
    /\ "check_continuity" \in FailedPasses =>
          loc.continuity = ErrorOutcome("check_continuity")
    /\ "run_tests" \in FailedPasses =>
          loc.test_results = << <<"An error occurred while running tests.">> >>
    /\ (Returned /\ Failures = {}) =>
          /\ RanPasses = IF Truthy(loc.previous_chapters) THEN PassOps
                         ELSE PassOps \ {"check_continuity"}
          /\ Wrote("chapter") /\ Wrote("validity")
          /\ ValidityPath(loc.chapter_number) \in DOMAIN files
          /\ files[ValidityPath(loc.chapter_number)] =
                validity_doc(loc.validity.flag, loc.validity.feedback,
                             loc.review_feedback, loc.style.feedback,
                             loc.continuity.feedback, loc.test_results,
                             loc.style.flag, loc.continuity.flag)

\* all five passes failed and both documents were written
C6_Witness ==
    /\ Returned /\ Failures = {}
    /\ FailedPasses = PassOps
    /\ Wrote("chapter") /\ Wrote("validity")

\* no document output/Chapter i.docx, i below the requested number, existed
\* when the call began
NoPreviousDocuments ==
    \A i \in 1..(loc.chapter_number - 1) :
        ChapterPath(OUTPUT, i) \notin DOMAIN loc.files0

HasParagraph(doc, text) == \E i \in 1..Len(doc) : doc[i] = Para("Normal", text)

\* C8: when no previous-chapter document exists, previous_chapters is None,
\* the prompt carries 'No previous chapters', the checking endpoint is never
\* called for continuity, and the validity document records continuity True
\* with 'No previous chapters available for continuity check.'.
C8_NoPreviousChapters ==
    (calls > 0 /\ pc # "previous" /\ NoPreviousDocuments) =>
        /\ loc.previous_chapters = None
        /\ loc.prompt.previous = NO_PREVIOUS
        /\ "check_continuity" \notin RanPasses
        /\ Wrote("validity") =>
              LET doc == files[ValidityPath(loc.chapter_number)] IN
              /\ HasParagraph(doc, <<"Continuity: ", "True">>)
              /\ HasParagraph(doc, <<"Feedback: ",
                     "No previous chapters available for continuity check.">>)

\* a second chapter was generated and reported on with nothing to continue from
C8_Witness ==
    /\ Returned /\ NoPreviousDocuments /\ Wrote("validity")
    /\ loc.chapter_number = 2

----------------------------------------------------------------------------
(* Properties of concurrent saves (SpecRace) *)

BothDone == \A r \in Runs : run[r].pc = "done"

Holds(path, r) == path \in DOMAIN files /\ files[path][2].text = run[r].chapter

\* C2: when both runs have saved, each chapter is in a document of its own:
\* neither run overwrote the document of the other.
C2_NoLostChapter ==
    BothDone =>
        \E p1, p2 \in ChapterFiles(files) :
            p1 # p2 /\ Holds(p1, 1) /\ Holds(p2, 2)

----------------------------------------------------------------------------
(* Properties of the response parse (SpecParse) *)

\* the feedback marker and the affirmative label of a pass
Marker(pass) ==
    CASE pass = "review_chapter" -> "Review:"
      [] pass = "run_tests" -> "Test Results:"
      [] OTHER -> "Feedback:"

YesLabel(pass) ==
    CASE pass = "check_chapter" -> "Valid: Yes"
      [] pass = "enforce_style_guide" -> "Adheres to Style Guide: Yes"
      [] pass = "check_continuity" -> "Continuity: Yes"

VerdictPasses == {"check_chapter", "enforce_style_guide", "check_continuity"}

\* a pass has parsed a response without its feedback marker
ParsedUnmarked ==
    /\ parse.pass # ""
    /\ \A i \in 1..Len(parse.response) : parse.response[i] # Marker(parse.pass)

\* the feedback a pass returned, its lines joined again
ParsedFeedback ==
    IF parse.pass \in VerdictPasses THEN parse.feedback
    ELSE JoinLines(parse.lines)

\* C7 as stated: without the marker the feedback is the whole raw response
\* and the boolean outcome is false.
C7_Original ==
    ParsedUnmarked =>
        /\ ParsedFeedback = parse.response
        /\ parse.pass \in VerdictPasses => parse.flag = FALSE

\* C7, amended: without the marker the feedback is the whole raw response
\* (as its lines for review and tests), and the boolean outcome is true
\* exactly when the response holds the pass's '<Label>: Yes'.
C7_UnmarkedResponse ==
    ParsedUnmarked =>
        /\ ParsedFeedback = parse.response
        /\ parse.pass \in VerdictPasses =>
              (parse.flag <=> \E i \in 1..Len(parse.response) :
                                  parse.response[i] = YesLabel(parse.pass))

\* a response with surrounding whitespace and no marker has been parsed and
\* found affirmative
C7_Witness ==
    /\ ParsedUnmarked
    /\ parse.pass = "check_chapter" /\ parse.flag
    /\ parse.response # <<>> /\ parse.response[1] = "\n"

----------------------------------------------------------------------------
(* Properties of get_existing_chapter_content (SpecPrev) *)

\* the whole texts of the included chapters, the latest included first, each
\* followed by a line break
RECURSIVE Gathered(_, _)
Gathered(fs, included) ==
    IF included = <<>> THEN <<>>
    ELSE DocText(fs[ChapterPath(OUTPUT, included[Len(included)])]) \o <<"\n">>
         \o Gathered(fs, SubSeq(included, 1, Len(included) - 1))

\* the sum of len(text) // 4 over the included chapters
RECURSIVE Estimated(_, _)
Estimated(fs, included) ==
    IF included = <<>> THEN 0
    ELSE (TextLen(DocText(fs[ChapterPath(OUTPUT, Head(included))])) \div 4)
         + Estimated(fs, Tail(included))

\* C9: at every step of the accumulation the running estimate, the sum of
\* len(text) // 4 over the included chapters, is at most half of
\* MAX_INPUT_TOKENS, and the accumulated text is made of whole chapters only.
C9_WithinBudget ==
    /\ scan.st.total_tokens = Estimated(files, scan.st.included)
    /\ scan.st.total_tokens <= MAX_INPUT_TOKENS(scan.model) \div 2
    /\ scan.st.existing_content = Gathered(files, scan.st.included)
    /\ scan.done /\ scan.result.some => scan.result.text = scan.st.existing_content

\* the accumulation filled the budget to the last token, met a chapter that
\* no longer fits, left it out whole and returned
C9_Witness ==
    /\ scan.done /\ scan.st.stopped
    /\ scan.st.included # <<>>
    /\ scan.st.total_tokens = MAX_INPUT_TOKENS(scan.model) \div 2
    /\ Len(scan.st.opened) > Len(scan.st.included)

----------------------------------------------------------------------------
(* Properties of ContextManager (SpecCtx) *)

\* the lines of a returned context string (each ends with a line break)
LinesOf(text) ==
    LET parts == SplitLines(text) IN
    {parts[k] : k \in 1..(Len(parts) - 1)}

LineCount(text) == Len(SplitLines(text)) - 1

\* line breaks inside a text
RECURSIVE Breaks(_)
Breaks(text) ==
    IF text = <<>> THEN 0
    ELSE (IF Head(text) = "\n" THEN 1 ELSE 0) + Breaks(Tail(text))

RECURSIVE SumBreaks(_)
SumBreaks(items) ==
    IF items = <<>> THEN 0 ELSE Breaks(Head(items)) + SumBreaks(Tail(items))

\* needle in text, for texts
Within(needle, text) ==
    \E k \in 0..(Len(text) - Len(needle)) :
        SubSeq(text, k + 1, k + Len(needle)) = needle

ListFields == {"plot", "settings", "other_elements"}

\* C10 as stated: get_context() has one line per entry stored so far, and a
\* line an earlier get_context() returned is in every later one.
C10_Original ==
    /\ LineCount(get_context(context)) = Stored(context)
    /\ LinesOf(context_str) \subseteq LinesOf(get_context(context))

\* C10, amended: get_context() is made of one '<field>: ...' text per stored
\* entry, each ended by a line break, so its line count is the number of
\* entries plus the line breaks inside the stored texts; a plot, setting or
\* other-element text an earlier get_context() returned is in every later
\* one, and so is every character name, with the description given last.
C10_EntriesKept ==
    /\ LineCount(get_context(context)) =
          Stored(context) + SumBreaks(context.plot) + SumBreaks(context.settings)
          + SumBreaks(context.other_elements)
    /\ \A key \in ListFields, item \in Items :
          Within(ItemLine(key, item), context_str)
              => Within(ItemLine(key, item), get_context(context))
    /\ \A name \in Names :
          Within(<<"characters", ": ">> \o name \o <<": ">>, context_str)
              => \E description \in Descriptions :
                    /\ Within(CharacterLine("characters",
                                 [name |-> name, description |-> description]),
                              get_context(context))
                    /\ \E k \in 1..Len(context.characters) :
                          context.characters[k] =
                              [name |-> name, description |-> description]

\* after a get_context() that listed a character and a plot text of several
\* lines, the character was given another description
C10_Witness ==
    /\ Within(CharacterLine("characters", [name |-> <<"Ann">>, description |-> <<"tall">>]),
              context_str)
    /\ Within(ItemLine("plot", <<"dusk", "\n", "rain">>), context_str)
    /\ \E k \in 1..Len(context.characters) :
          context.characters[k] = [name |-> <<"Ann">>, description |-> <<"shy">>]
    /\ Len(context.plot) = 2

\* the fields, in the order the claim gives
FieldOrder == <<"characters", "plot", "settings", "other_elements">>

Rank(key) == CHOOSE k \in 1..Len(FieldOrder) : FieldOrder[k] = key

IsField(piece) == \E k \in 1..Len(FieldOrder) : FieldOrder[k] = piece

\* the field names of a context string, in the order they occur in it
FieldsOf(text) == SelectSeq(text, IsField)

\* the part of a context string that belongs to one field: each piece
\* belongs to the field named last before it
RECURSIVE Section(_, _, _)
Section(text, key, current) ==
    IF text = <<>> THEN <<>>
    ELSE LET now == IF IsField(Head(text)) THEN Head(text) ELSE current IN
         (IF now = key THEN <<Head(text)>> ELSE <<>>)
         \o Section(Tail(text), key, now)

\* the lines of a context string that are about one character name
NameLines(text, name) ==
    {line \in LinesOf(text) :
        Within(<<"characters", ": ">> \o name \o <<": ">>, line)}

\* C11: in every get_context() the fields come in the order characters, plot,
\* settings, other_elements whatever the order of the add_* calls; an add to
\* a list field puts its text after the texts the field already had; after
\* add_character(name, description) the name has exactly one line and it
\* carries that description, while no other call touches the name's line;
\* and get_context() leaves the aggregator's state as it was.
C11_FieldOrder ==
    [][ LET before == get_context(context)
            after == get_context(context')
        IN
        /\ \A i, j \in 1..Len(FieldsOf(after)) :
              i < j => Rank(FieldsOf(after)[i]) <= Rank(FieldsOf(after)[j])
        /\ \A key \in ListFields :
              \/ Section(after, key, "") = Section(before, key, "")
              \/ \E item \in Items :
                    Section(after, key, "") =
                        Section(before, key, "") \o ItemLine(key, item)
        /\ \A name \in Names :
              /\ \A description \in Descriptions :
                    AddCharacterCall(name, description) =>
                        NameLines(after, name) =
                            {<<"characters", ": ">> \o name \o <<": ">> \o description}
              /\ (~\E description \in Descriptions : AddCharacterCall(name, description))
                    => NameLines(after, name) = NameLines(before, name)
        /\ GetContext => context' = context
      ]_vars

\* characters were added after an earlier get_context() that began with the
\* plot, and the context string now begins with the characters
C11_Witness ==
    /\ context_str # <<>> /\ context_str[1] = "plot"
    /\ context.characters # <<>> /\ context.settings # <<>>
    /\ get_context(context)[1] = "characters"

----------------------------------------------------------------------------
(* Properties of the validity document (SpecReport) *)

\* C12: a validity document that generate_chapter has written reports the
\* is-valid flag, the validity feedback, every review line, the style-guide
\* flag and feedback, the continuity flag and feedback and every test line,
\* whatever the validator outcomes were, empty feedback texts included.
C12_ReportsEverything ==
    (Returned /\ Wrote("validity")) =>
        LET doc == files[ValidityPath(loc.chapter_number)] IN
        /\ HasParagraph(doc, <<"Is Valid: ", BoolStr(loc.validity.flag)>>)
        /\ HasParagraph(doc, <<"Feedback: ">> \o loc.validity.feedback)
        /\ \A k \in 1..Len(loc.review_feedback) :
              HasParagraph(doc, loc.review_feedback[k])
        /\ HasParagraph(doc, <<"Adheres to Style Guide: ", BoolStr(loc.style.flag)>>)
        /\ HasParagraph(doc, <<"Feedback: ">> \o loc.style.feedback)
        /\ HasParagraph(doc, <<"Continuity: ", BoolStr(loc.continuity.flag)>>)
        /\ HasParagraph(doc, <<"Feedback: ">> \o loc.continuity.feedback)
        /\ \A k \in 1..Len(loc.test_results) :
              HasParagraph(doc, loc.test_results[k])

----------------------------------------------------------------------------
(* Properties of the entry point (SpecMain) *)

\* main has left its try statement
MainOver == pc = "raised" \/ (pc = "idle" /\ calls > 0)

\* C13: main runs the pipeline to completion for a well-formed request: it
\* reaches the generation call, the chapter and validity documents are
\* written, and nothing is raised to the caller.
C13_MainCompletes ==
    /\ pc # "raised"
    /\ MainOver =>
          /\ \E i \in 1..Len(events) : events[i].op = "generate_content"
          /\ Wrote("chapter") /\ Wrote("validity")

----------------------------------------------------------------------------
(* Order of the accumulation of prior chapters (SpecPrev) *)

\* C14: when the prior chapters do not all fit, the chapters included are
\* the most recent ones: every existing chapter after an included one, up to
\* chapter N-1, is included too, and the chapters left out are older.
C14_LatestFirst ==
    (scan.done /\ scan.st.stopped) =>
        \A i \in Range(scan.st.included) :
            \A j \in (i + 1)..(scan.chapter_number - 1) :
                ChapterPath(OUTPUT, j) \in DOMAIN files
                    => j \in Range(scan.st.included)

----------------------------------------------------------------------------
(* Order of the steps of one generate_chapter call (Spec) *)

\* the positions in the log of the current call of the steps named in ops
Positions(ops) == {i \in 1..Len(events) : events[i].op \in ops}

\* the validator passes in the order the claim gives
ClaimedOrder == <<"check_chapter", "review_chapter", "enforce_style_guide",
                  "check_continuity", "run_tests">>

ClaimedRank(op) == CHOOSE k \in 1..Len(ClaimedOrder) : ClaimedOrder[k] = op

\* C15: within one call the generation endpoint is called at most once, after
\* the prior documents were read, and its stream is consumed to the end
\* before any validator call; the validator calls come in the order validity,
\* review, style guide, continuity (only with prior text), tests, each at most
\* once and five at most; no document is written before all of them have
\* returned, and the chapter document is written before the validity document.
C15_StepOrder ==
    LET gen == Positions({"generate_content"})
        passes == Positions(Range(ClaimedOrder))
        writes == Positions({"write"})
    IN
    /\ Cardinality(gen) <= 1
    /\ \A r \in Positions({"read"}), g \in gen : r < g
    /\ Cardinality(passes) <= 5
    /\ \A p \in passes :
          /\ \E g \in gen : g < p /\ events[g].err = ""
          /\ loc.chapter = InOrder(loc.stream)
    /\ \A p, q \in passes :
          p < q => ClaimedRank(events[p].op) < ClaimedRank(events[q].op)
    /\ \A p \in passes :
          events[p].op = "check_continuity" => Truthy(loc.previous_chapters)
    /\ \A w \in writes :
          /\ \A p \in passes : p < w
          /\ {events[p].op : p \in passes} =
                IF Truthy(loc.previous_chapters) THEN Range(ClaimedOrder)
                ELSE Range(ClaimedOrder) \ {"check_continuity"}
          /\ events[w].path.kind = "validity" =>
                \E c \in writes :
                    c < w /\ events[c].path.kind = "chapter" /\ events[c].err = ""
    /\ files # loc.files0 => writes # {}

\* a call with prior text has made all five validator calls, none of which
\* failed, and written both documents
C15_Witness ==
    /\ Returned /\ Wrote("chapter") /\ Wrote("validity")
    /\ Cardinality(Positions(Range(ClaimedOrder))) = 5
    /\ FailedPasses = {}
    /\ Positions({"read"}) # {}

----------------------------------------------------------------------------
(* Where the documents of a call lie (Spec) *)

\* C16: every document the current call has read or written lies in the
\* destination directory, the directory of the chapter_path it was given.
C16_InDestination ==
    \A i \in Positions({"read", "write"}) :
        events[i].path.dir = loc.chapter_path.dir

\* the numbers of the documents of one kind that a log shows as written
WrittenNumbers(evs, kind) ==
    {evs[i].path.n : i \in {j \in 1..Len(evs) :
                              /\ evs[j].op = "write" /\ evs[j].err = ""
                              /\ evs[j].path.kind = kind}}

\* C17: the validity document is written under the number of the chapter
\* document written by the same call, renumbered or not, and no step replaces
\* the validity document of an earlier chapter by another report.
C17_ReportMatchesChapter ==
    [][ /\ pc = "save" =>
              WrittenNumbers(events', "validity") \subseteq WrittenNumbers(events', "chapter")
        /\ \A p \in ValidityFiles(files) :
              p \in DOMAIN files' /\ files'[p] = files[p] ]_vars

====
